---- MODULE Spec2Model ----
(***************************************************************************)
(* Installable lifecycle and staging move of bin/lib/installation.py.      *)
(*                                                                         *)
(* One behaviour follows one configured Installable (its variant and its   *)
(* configuration are fixed in Init) through any number of process runs.    *)
(* Each run calls install(), verify(), is_installed() or should_install()  *)
(* on it.  install() is stepped at its filesystem mutations so that a      *)
(* process kill between two of them is a state of the model.               *)
(*                                                                         *)
(* A directory is modelled by the artifact it holds (NONE when the path    *)
(* does not exist); os.replace moves that artifact as one unit.            *)
(*                                                                         *)
(* Failure model: clean_staging (an rmtree that leaves entries behind, so  *)
(* that os.makedirs raises), the fetch, the rename-aside (os.replace of    *)
(* line 340) and the rename-in (os.replace of line 343) may each raise.    *)
(* The rename-back of line 352 and the rmtree of line 349 are taken to     *)
(* succeed.                                                                *)
(*                                                                         *)
(* The module holds four specifications over one set of variables:         *)
(*   Spec        the Installable lifecycle described above;                *)
(*   SpecExpand  targets_from over a configuration tree, one target of the *)
(*               generator per step;                                       *)
(*   SpecBuild   LibraryBuilder.build over the build matrix, one           *)
(*               combination per step;                                     *)
(*   SpecCache   the two process-wide memoized lookups, one call per step. *)
(* Each specification holds the variables of the other three at fixed      *)
(* values.                                                                 *)
(***************************************************************************)
EXTENDS Integers, Sequences, FiniteSets, TLC

\* ---------------------------------------------------------------- bounds
\* nightly versions published over a behaviour: 1..MaxVer
MaxVer == 3
\* configured num_to_keep ranges over 0..MaxKeep
MaxKeep == 1

\* ------------------------------------------------------------- constants
NONE == "none"
NoLink == -1
\* destination path of the non-nightly variants (install_path / path_name)
FixedPath == 0

Variants == {"tarballs", "s3tarballs", "nightly", "script", "github"}
Versions == 1..MaxVer
Paths == 0..MaxVer
\* an unpacked artifact: does it hold the check_file, does its check_exe run
Artifacts == {"marker_only", "exe_only"}
Content == Artifacts \cup {NONE}
Dependees == {"depA", "depB"}
DependsChoices == {<<>>, <<"depA">>, <<"depA", "depB">>}
StagingNames == {"untar_dir", "other", "temp_orig"}
EmptyStaging == [n \in StagingNames |-> NONE]

HasMarker(c) == c = "marker_only"
ProbeOk(c) == c = "exe_only"

VARIABLES
    variant,      \* INSTALLER_TYPES key of the Installable
    cfg,          \* its configuration: symlink, check_file, subdir, num_to_keep, depends
    most_recent,  \* newest nightly version in the S3 listing
    dest,         \* destination tree: Paths -> Content
    link,         \* the symlink of the Installable: the path it names, or NoLink
    subdir_made,  \* whether destination/subdir exists
    depInstalled, \* dependee -> what its is_installed() answers
    staging,      \* staging directory: StagingNames -> Content
    pc,           \* position of the running call
    dry_run,      \* InstallationContext.dry_run of the running process
    mvstate,      \* local `state` of move_from_staging
    err,          \* which step raised, NONE if none
    ret,          \* return value of install(): "true", "false" or NONE
    pre,          \* snapshot taken when install() was called
    cleaned,      \* clean_staging ran during this call
    fetched,      \* the archive was fetched during this call
    checked,      \* dependees whose is_installed() was asked during this call
    new,          \* artifact staged under the expected name during this call
    q             \* last query: [op, always, res]

\* targets_from
VARIABLES
    tree0,        \* the configuration tree handed to targets_from
    tree,         \* the same tree object as the generator runs
    enabled,      \* the enabled flags
    korder,       \* iteration order of the keys of a target
    out,          \* the targets yielded so far
    xstate,       \* "running", "exhausted", or the error the generator raised
    xfail         \* the target whose expansion raised

expvars == <<tree0, tree, enabled, korder, out, xstate, xfail>>

\* LibraryBuilder.build
VARIABLES
    binput,           \* what build() reads: the library's build settings, the compilers
                      \* of the properties file, buildfor, dry_run
    bpc,              \* position of build()
    ci,               \* index of the compiler the for loop of line 774 is at
    todo,             \* combinations of that compiler still to attempt
    builds_failed,    \* local of makebuild
    builds_succeeded, \* local of makebuild
    attempts,         \* the combinations makebuildfor was called with, in order
    last,             \* what the latest makebuildfor call met and the counts before it
    bret              \* return value of build(): "true", "false" or NONE

buildvars == <<binput, bpc, ci, todo, builds_failed, builds_succeeded, attempts, last, bret>>

\* the memoized lookups
VARIABLES
    memoized_compilers,        \* the global _memoized_compilers
    cpp_properties_compilers,  \* the global _cpp_properties_compilers
    listing,                   \* what list_compilers() yields when nothing fails
    properties,                \* the compilers the properties file defines
    calls                      \* the calls made so far and how each ended

cachevars == <<memoized_compilers, cpp_properties_compilers, listing, properties, calls>>

vars == <<variant, cfg, most_recent, dest, link, subdir_made, depInstalled, staging,
          pc, dry_run, mvstate, err, ret, pre, cleaned, fetched, checked, new, q,
          expvars, buildvars, cachevars>>

fsvars == <<dest, link, subdir_made, depInstalled, staging>>
\* what no step of the Installable lifecycle changes
confvars == <<variant, cfg, expvars, buildvars, cachevars>>
callvars == <<dry_run, mvstate, err, ret, pre, cleaned, fetched, checked, new>>

NoQuery == [op |-> NONE, always |-> FALSE, res |-> FALSE]

\* ------------------------------------------------------------ configuration
CfgFor(v) ==
    IF v \in {"tarballs", "script"} THEN
        {[symlink |-> s, check_file |-> f, subdir |-> FALSE, num_to_keep |-> 0, depends |-> d] :
            s \in BOOLEAN, f \in BOOLEAN, d \in DependsChoices}
    ELSE IF v = "s3tarballs" THEN
        {[symlink |-> FALSE, check_file |-> f, subdir |-> s, num_to_keep |-> 0, depends |-> d] :
            s \in BOOLEAN, f \in BOOLEAN, d \in DependsChoices}
    ELSE IF v = "github" THEN
        {[symlink |-> FALSE, check_file |-> TRUE, subdir |-> TRUE, num_to_keep |-> 0, depends |-> d] :
            d \in DependsChoices}
    ELSE
        {[symlink |-> TRUE, check_file |-> f, subdir |-> FALSE, num_to_keep |-> k, depends |-> d] :
            f \in BOOLEAN, k \in 0..MaxKeep, d \in DependsChoices}

\* path_name / install_path of the Installable
PathName == IF variant = "nightly" THEN most_recent ELSE FixedPath

\* _setup_check_link was called in the constructor
LinkConfigured == cfg.symlink

\* InstallationContext.check_link: readlink(link) == source, a missing link is False
CheckLink == link = PathName

\* ---------------------------------------------------------------- queries
\* mutant: a configured symlink check alone is the answer
IsInstalledFrom_LinkDecides(linkCfg, linkOk, fileCfg, fileOk, probeOk) ==
    IF linkCfg THEN linkOk
    ELSE IF fileCfg THEN fileOk
    ELSE probeOk

\* Installable.is_installed over the outcomes of its three checks
IsInstalledFrom(linkCfg, linkOk, fileCfg, fileOk, probeOk) ==
    IF linkCfg /\ ~linkOk THEN FALSE
    ELSE IF fileCfg THEN fileOk
    ELSE probeOk

IsInstalled ==
    IsInstalledFrom(LinkConfigured, CheckLink, cfg.check_file,
                    HasMarker(dest[PathName]), ProbeOk(dest[PathName]))

\* mutant: the nightly override of should_install is missing
ShouldInstallFrom_NoOverride(v, always, installed) == always \/ ~installed

\* Installable.should_install and the override of NightlyInstallable
ShouldInstallFrom(v, always, installed) ==
    IF v = "nightly" THEN TRUE ELSE always \/ ~installed

ShouldInstall(always) == ShouldInstallFrom(variant, always, IsInstalled)

Snapshot ==
    [dest |-> dest, link |-> link, subdir_made |-> subdir_made, staging |-> staging,
     depInstalled |-> depInstalled, installed |-> IsInstalled]

\* targets_from is not running
ExpandParked ==
    /\ tree0 = <<>>
    /\ tree = <<>>
    /\ enabled = {}
    /\ korder = <<>>
    /\ out = <<>>
    /\ xstate = "parked"
    /\ xfail = NONE

NoAttempt == [built |-> FALSE, export |-> NONE, failed_before |-> 0, succeeded_before |-> 0]

\* build() is not running
BuildParked ==
    /\ binput = <<>>
    /\ bpc = "parked"
    /\ ci = 0
    /\ todo = <<>>
    /\ builds_failed = 0
    /\ builds_succeeded = 0
    /\ attempts = <<>>
    /\ last = NoAttempt
    /\ bret = NONE

\* the module globals as the import leaves them: None
NoCache == [none |-> TRUE, entries |-> <<>>]

\* no lookup is made
CacheParked ==
    /\ memoized_compilers = NoCache
    /\ cpp_properties_compilers = NoCache
    /\ listing = <<>>
    /\ properties = {}
    /\ calls = <<>>

Init ==
    /\ ExpandParked
    /\ BuildParked
    /\ CacheParked
    /\ variant \in Variants
    /\ cfg \in CfgFor(variant)
    /\ most_recent = 1
    /\ dest = [p \in Paths |-> NONE]
    /\ link = NoLink
    /\ subdir_made = FALSE
    /\ depInstalled = [d \in Dependees |-> TRUE]
    /\ staging = EmptyStaging
    /\ pc = "idle"
    /\ dry_run = FALSE
    /\ mvstate = ""
    /\ err = NONE
    /\ ret = NONE
    /\ pre = Snapshot
    /\ cleaned = FALSE
    /\ fetched = FALSE
    /\ checked = {}
    /\ new = NONE
    /\ q = NoQuery

\* ------------------------------------------------- is_installed / should_install
IsInstalledCall ==
    /\ pc = "idle"
    /\ q' = [op |-> "is_installed", always |-> FALSE, res |-> IsInstalled]
    /\ UNCHANGED <<fsvars, confvars, callvars, most_recent, pc>>

ShouldInstallCall ==
    /\ pc = "idle"
    /\ \E always \in BOOLEAN :
         q' = [op |-> "should_install", always |-> always, res |-> ShouldInstall(always)]
    /\ UNCHANGED <<fsvars, confvars, callvars, most_recent, pc>>

\* a newer nightly appears in the S3 listing between two process runs
NewNightly ==
    /\ pc = "idle"
    /\ variant = "nightly"
    /\ most_recent < MaxVer
    /\ most_recent' = most_recent + 1
    /\ q' = NoQuery
    /\ UNCHANGED <<fsvars, confvars, pc, dry_run, mvstate, err, ret, cleaned, fetched,
                   checked, new>>
    /\ pre' = [pre EXCEPT !.installed = IsInstalled']

\* between two process runs a declared dependee is installed or removed by other runs
DependeeChange ==
    /\ pc = "idle"
    /\ \E i \in 1..Len(cfg.depends) :
         depInstalled' = [depInstalled EXCEPT ![cfg.depends[i]] = ~depInstalled[cfg.depends[i]]]
    /\ q' = NoQuery
    /\ pre' = [pre EXCEPT !.depInstalled = depInstalled']
    /\ UNCHANGED <<dest, link, subdir_made, staging, confvars, most_recent, pc, dry_run,
                   mvstate, err, ret, cleaned, fetched, checked, new>>

\* ------------------------------------------------------------ install(): dependees
\* mutant: only the first dependee decides
AnyMissing_FirstOnly(deps) == Len(deps) > 0 /\ ~depInstalled[deps[1]]

\* Installable.install sets any_missing in a loop over self.depends
AnyMissing(deps) == \E i \in 1..Len(deps) : ~depInstalled[deps[i]]

\* the loop has no break: is_installed() is asked of every dependee
DependeesAsked(deps) == {deps[i] : i \in 1..Len(deps)}

\* mutant: install() returns at once when should_install() is false
InstallCall_ShortCircuit ==
    /\ pc = "idle"
    /\ dry_run' \in BOOLEAN
    /\ pre' = Snapshot
    /\ checked' = DependeesAsked(cfg.depends)
    /\ cleaned' = FALSE
    /\ fetched' = FALSE
    /\ new' = NONE
    /\ err' = NONE
    /\ mvstate' = ""
    /\ q' = NoQuery
    /\ IF AnyMissing(cfg.depends)
         THEN pc' = "returned" /\ ret' = "false"
         ELSE IF ~ShouldInstall(FALSE)
         THEN pc' = "returned" /\ ret' = "true"
         ELSE pc' = "stage" /\ ret' = NONE
    /\ UNCHANGED <<fsvars, confvars, most_recent>>

\* a process run starts and calls install(); the base class checks the dependees
InstallCall ==
    /\ pc = "idle"
    /\ dry_run' \in BOOLEAN
    /\ pre' = Snapshot
    /\ checked' = DependeesAsked(cfg.depends)
    /\ cleaned' = FALSE
    /\ fetched' = FALSE
    /\ new' = NONE
    /\ err' = NONE
    /\ mvstate' = ""
    /\ q' = NoQuery
    /\ IF AnyMissing(cfg.depends)
         THEN pc' = "returned" /\ ret' = "false"
         ELSE pc' = "stage" /\ ret' = NONE
    /\ UNCHANGED <<fsvars, confvars, most_recent>>

\* ------------------------------------------------------------------- stage()
\* step after stage() in install(): retention (nightly), make_subdir (s3, github)
AfterStage(v) == IF v \in {"nightly", "s3tarballs", "github"} THEN "pre_move" ELSE "move"

\* a process run starts and calls verify(): stage(), then compare_against_staging
VerifyCall ==
    /\ pc = "idle"
    /\ pc' = "vstage"
    /\ pre' = Snapshot
    /\ checked' = {}
    /\ cleaned' = FALSE
    /\ fetched' = FALSE
    /\ new' = NONE
    /\ err' = NONE
    /\ mvstate' = ""
    /\ ret' = NONE
    /\ q' = NoQuery
    /\ UNCHANGED <<fsvars, confvars, most_recent, dry_run>>

\* where an exception of stage() leaves the call
RaisedFrom(p) == IF p = "vstage" THEN "vraised" ELSE "raised"

\* mutant: the staging directory is not emptied before the fetch
Stage_NoClean ==
    /\ pc \in {"stage", "vstage"}
    /\ cleaned' = TRUE
    /\ \/ /\ staging' = staging
          /\ err' = "fetch"
          /\ pc' = RaisedFrom(pc)
          /\ UNCHANGED <<fetched, new>>
       \/ \E a \in Artifacts, name \in {"untar_dir", "other"} :
            /\ staging' = [staging EXCEPT ![name] = a]
            /\ fetched' = TRUE
            /\ new' = IF name = "untar_dir" THEN a ELSE NONE
            /\ IF variant = "tarballs" /\ name = "other"
                 THEN err' = "missing" /\ pc' = RaisedFrom(pc)
                 ELSE /\ err' = err
                      /\ pc' = IF pc = "vstage" THEN "compare" ELSE AfterStage(variant)
    /\ UNCHANGED <<dest, link, subdir_made, depInstalled, confvars, most_recent,
                   dry_run, mvstate, ret, pre, checked, q>>

\* stage() of every variant: clean_staging, then the variant's fetch and unpack.
\* rmtree ignores its errors, so it may leave entries behind, and os.makedirs then
\* raises on the directory that still exists.  The fetch may raise.  The archive may
\* unpack under the expected directory name or under another one.
Stage ==
    /\ pc \in {"stage", "vstage"}
    /\ cleaned' = TRUE
    /\ \/ /\ \E keep \in (SUBSET {n \in StagingNames : staging[n] # NONE}) \ {{}} :
                staging' = [n \in StagingNames |-> IF n \in keep THEN staging[n] ELSE NONE]
          /\ err' = "clean"
          /\ pc' = RaisedFrom(pc)
          /\ UNCHANGED <<fetched, new>>
       \/ /\ staging' = EmptyStaging
          /\ err' = "fetch"
          /\ pc' = RaisedFrom(pc)
          /\ UNCHANGED <<fetched, new>>
       \/ \E a \in Artifacts, name \in {"untar_dir", "other"} :
            /\ staging' = [EmptyStaging EXCEPT ![name] = a]
            /\ fetched' = TRUE
            /\ new' = IF name = "untar_dir" THEN a ELSE NONE
            /\ IF variant = "tarballs" /\ name = "other"
                 THEN err' = "missing" /\ pc' = RaisedFrom(pc)
                 ELSE /\ err' = err
                      /\ pc' = IF pc = "vstage" THEN "compare" ELSE AfterStage(variant)
    /\ UNCHANGED <<dest, link, subdir_made, depInstalled, confvars, most_recent,
                   dry_run, mvstate, ret, pre, checked, q>>

\* compare_against_staging: diff -r of the staged directory against the destination
Compare ==
    /\ pc = "compare"
    /\ ret' = IF staging["untar_dir"] # NONE /\ staging["untar_dir"] = dest[PathName]
                THEN "true" ELSE "false"
    /\ pc' = "verified"
    /\ UNCHANGED <<fsvars, confvars, most_recent, dry_run, mvstate, err, pre, cleaned,
                   fetched, checked, new, q>>

\* ------------------------------------------------------ retention, make_subdir
RECURSIVE SortedSeq(_)
\* list(sorted(...)) of a set of versions
SortedSeq(S) ==
    IF S = {} THEN <<>>
    ELSE LET m == CHOOSE x \in S : \A y \in S : x <= y
         IN <<m>> \o SortedSeq(S \ {m})

\* install_context.glob(compiler_pattern) on a destination tree
Glob(d) == {v \in Versions : d[v] # NONE}

\* s[:-n] for n >= 1
DropLast(s, n) == IF Len(s) > n THEN SubSeq(s, 1, Len(s) - n) ELSE <<>>

\* mutant: retention is put off until the new version is installed, nothing is removed
\* ahead of the move
ToRemove_Nothing(all_versions, num_to_keep) == <<>>

\* all_versions[:-num_to_keep] with num_to_keep = self.num_to_keep + 1
ToRemove(all_versions, num_to_keep) == DropLast(all_versions, num_to_keep + 1)

\* remove_dir on each element
RemoveDirs(d, seq, dry) ==
    IF dry THEN d
    ELSE [p \in Paths |-> IF \E i \in 1..Len(seq) : seq[i] = p THEN NONE ELSE d[p]]

\* mutant: the nightly symlink is repointed before the move
PreMove_LinkFirst ==
    /\ pc = "pre_move"
    /\ IF variant = "nightly"
         THEN /\ dest' = RemoveDirs(dest, ToRemove(SortedSeq(Glob(dest)), cfg.num_to_keep),
                                    dry_run)
              /\ link' = IF dry_run THEN link ELSE PathName
              /\ UNCHANGED subdir_made
         ELSE /\ subdir_made' = (subdir_made \/ cfg.subdir)
              /\ UNCHANGED <<dest, link>>
    /\ pc' = "move"
    /\ UNCHANGED <<depInstalled, staging, confvars, most_recent, callvars, q>>

\* after stage(): the nightly retention, or make_subdir of the s3 and github variants
PreMove ==
    /\ pc = "pre_move"
    /\ IF variant = "nightly"
         THEN /\ dest' = RemoveDirs(dest, ToRemove(SortedSeq(Glob(dest)), cfg.num_to_keep),
                                    dry_run)
              /\ UNCHANGED subdir_made
         ELSE /\ subdir_made' = (subdir_made \/ cfg.subdir)
              /\ UNCHANGED dest
    /\ pc' = "move"
    /\ UNCHANGED <<link, depInstalled, staging, confvars, most_recent, callvars, q>>

\* ------------------------------------------------------------ move_from_staging
\* mutant: the existing destination is deleted instead of renamed aside
MoveAsideReal_Delete ==
    IF staging["untar_dir"] = NONE THEN
        /\ pc' = "raised"
        /\ err' = "missing"
        /\ UNCHANGED <<dest, staging, mvstate>>
    ELSE IF dest[PathName] # NONE THEN
        \/ /\ dest' = [dest EXCEPT ![PathName] = NONE]
           /\ mvstate' = "old_renamed"
           /\ pc' = "rename_in"
           /\ UNCHANGED <<err, staging>>
        \/ /\ pc' = "raised"
           /\ err' = "aside"
           /\ UNCHANGED <<dest, staging, mvstate>>
    ELSE
        /\ pc' = "rename_in"
        /\ UNCHANGED <<dest, staging, mvstate, err>>

\* lines 330-341: missing source raises; an existing destination is renamed aside to
\* staging/temp_orig, and that os.replace may raise
MoveAsideReal ==
    IF staging["untar_dir"] = NONE THEN
        /\ pc' = "raised"
        /\ err' = "missing"
        /\ UNCHANGED <<dest, staging, mvstate>>
    ELSE IF dest[PathName] # NONE THEN
        \/ /\ staging' = [staging EXCEPT !["temp_orig"] = dest[PathName]]
           /\ dest' = [dest EXCEPT ![PathName] = NONE]
           /\ mvstate' = "old_renamed"
           /\ pc' = "rename_in"
           /\ UNCHANGED err
        \/ /\ pc' = "raised"
           /\ err' = "aside"
           /\ UNCHANGED <<dest, staging, mvstate>>
    ELSE
        /\ pc' = "rename_in"
        /\ UNCHANGED <<dest, staging, mvstate, err>>

\* mutant: dry-run mode is not consulted
MoveAside_NoDryRun ==
    /\ pc = "move"
    /\ MoveAsideReal
    /\ UNCHANGED <<link, subdir_made, depInstalled, confvars, most_recent, dry_run, ret,
                   pre, cleaned, fetched, checked, new, q>>

\* lines 321-341: in dry-run mode return at once, else go on to the renames
MoveAside ==
    /\ pc = "move"
    /\ IF dry_run THEN
           /\ pc' = "link"
           /\ UNCHANGED <<dest, staging, mvstate, err>>
       ELSE MoveAsideReal
    /\ UNCHANGED <<link, subdir_made, depInstalled, confvars, most_recent, dry_run, ret,
                   pre, cleaned, fetched, checked, new, q>>

\* lines 342-345: os.replace(source, dest), which may raise
RenameIn ==
    /\ pc = "rename_in"
    /\ \/ /\ dest' = [dest EXCEPT ![PathName] = staging["untar_dir"]]
          /\ staging' = [staging EXCEPT !["untar_dir"] = NONE]
          /\ mvstate' = IF mvstate = "old_renamed" THEN "old_needs_remove" ELSE mvstate
          /\ UNCHANGED err
       \/ /\ err' = "in"
          /\ UNCHANGED <<dest, staging, mvstate>>
    /\ pc' = "finally"
    /\ UNCHANGED <<link, subdir_made, depInstalled, confvars, most_recent, dry_run, ret,
                   pre, cleaned, fetched, checked, new, q>>

\* mutant: the old destination is not renamed back
Finally_NoRollback ==
    /\ pc = "finally"
    /\ IF mvstate = "old_needs_remove" THEN
           /\ staging' = [staging EXCEPT !["temp_orig"] = NONE]
           /\ UNCHANGED dest
       ELSE UNCHANGED <<dest, staging>>
    /\ pc' = IF err = "in" THEN "raised" ELSE "link"
    /\ UNCHANGED <<link, subdir_made, depInstalled, confvars, most_recent, dry_run,
                   mvstate, err, ret, pre, cleaned, fetched, checked, new, q>>

\* mutant: an except clause in place of finally, the failure is swallowed
Finally_Swallow ==
    /\ pc = "finally"
    /\ IF mvstate = "old_needs_remove" THEN
           /\ staging' = [staging EXCEPT !["temp_orig"] = NONE]
           /\ UNCHANGED dest
       ELSE IF mvstate = "old_renamed" THEN
           /\ dest' = [dest EXCEPT ![PathName] = staging["temp_orig"]]
           /\ staging' = [staging EXCEPT !["temp_orig"] = NONE]
       ELSE UNCHANGED <<dest, staging>>
    /\ pc' = "link"
    /\ UNCHANGED <<link, subdir_made, depInstalled, confvars, most_recent, dry_run,
                   mvstate, err, ret, pre, cleaned, fetched, checked, new, q>>

\* lines 346-352: the finally block, then the pending exception propagates
Finally ==
    /\ pc = "finally"
    /\ IF mvstate = "old_needs_remove" THEN
           /\ staging' = [staging EXCEPT !["temp_orig"] = NONE]
           /\ UNCHANGED dest
       ELSE IF mvstate = "old_renamed" THEN
           /\ dest' = [dest EXCEPT ![PathName] = staging["temp_orig"]]
           /\ staging' = [staging EXCEPT !["temp_orig"] = NONE]
       ELSE UNCHANGED <<dest, staging>>
    /\ pc' = IF err = "in" THEN "raised" ELSE "link"
    /\ UNCHANGED <<link, subdir_made, depInstalled, confvars, most_recent, dry_run,
                   mvstate, err, ret, pre, cleaned, fetched, checked, new, q>>

\* ------------------------------------------------------------------ set_link
\* os.path.exists(full_dest) follows the symlink
LinkExists == link # NoLink /\ dest[link] # NONE

\* the tail of install(): set_link where the variant has a symlink, then return True
SetLink ==
    /\ pc = "link"
    /\ IF LinkConfigured /\ ~dry_run /\ link # NoLink /\ ~LinkExists THEN
           \* a dangling symlink is not removed and os.symlink raises FileExistsError
           /\ pc' = "raised"
           /\ err' = "link"
           /\ UNCHANGED <<link, ret>>
       ELSE
           /\ link' = IF LinkConfigured /\ ~dry_run THEN PathName ELSE link
           /\ pc' = "returned"
           /\ ret' = "true"
           /\ UNCHANGED err
    /\ UNCHANGED <<dest, subdir_made, depInstalled, staging, confvars, most_recent,
                   dry_run, mvstate, pre, cleaned, fetched, checked, new, q>>

\* ------------------------------------------------------------ process lifetime
Running ==
    pc \in {"stage", "pre_move", "move", "rename_in", "finally", "link", "vstage", "compare"}
Ended == pc \in {"returned", "raised", "killed", "verified", "vraised", "vkilled"}

\* the process is killed from outside between two steps
Kill ==
    /\ Running
    /\ pc' = IF pc \in {"vstage", "compare"} THEN "vkilled" ELSE "killed"
    /\ UNCHANGED <<fsvars, confvars, most_recent, callvars, q>>

\* the process run is over; the next one starts from the filesystem it left
Finish ==
    /\ Ended
    /\ pc' = "idle"
    /\ dry_run' = FALSE
    /\ mvstate' = ""
    /\ err' = NONE
    /\ ret' = NONE
    /\ pre' = Snapshot
    /\ cleaned' = FALSE
    /\ fetched' = FALSE
    /\ checked' = {}
    /\ new' = NONE
    /\ UNCHANGED <<fsvars, confvars, most_recent, q>>

Next ==
    \/ IsInstalledCall
    \/ ShouldInstallCall
    \/ NewNightly
    \/ DependeeChange
    \/ InstallCall
    \/ VerifyCall
    \/ Stage
    \/ Compare
    \/ PreMove
    \/ MoveAside
    \/ RenameIn
    \/ Finally
    \/ SetLink
    \/ Kill
    \/ Finish

Spec == Init /\ [][Next]_vars

\* ========================================================================
\* targets_from: configuration tree -> flat sequence of expanded targets
\* ========================================================================
\* the variables of the Installable lifecycle
lifecyclevars == <<variant, cfg, most_recent, fsvars, pc, callvars, q>>
installvars == <<lifecyclevars, cachevars>>

\* no Installable is at work
InstallParked ==
    /\ variant = "tarballs"
    /\ cfg = [symlink |-> FALSE, check_file |-> FALSE, subdir |-> FALSE, num_to_keep |-> 0,
              depends |-> <<>>]
    /\ most_recent = 1
    /\ dest = [p \in Paths |-> NONE]
    /\ link = NoLink
    /\ subdir_made = FALSE
    /\ depInstalled = [d \in Dependees |-> TRUE]
    /\ staging = EmptyStaging
    /\ pc = "parked"
    /\ dry_run = FALSE
    /\ mvstate = ""
    /\ err = NONE
    /\ ret = NONE
    /\ pre = Snapshot
    /\ cleaned = FALSE
    /\ fetched = FALSE
    /\ checked = {}
    /\ new = NONE
    /\ q = NoQuery

MAX_ITERS == 5

\* A string is the sequence of its pieces: a piece is literal text or a placeholder.
\* A list of strings is a sequence of strings.  A mapping is a function from keys.
Placeholders == {"{A}", "{B}", "{name}", "{Z}"}

\* the field a placeholder names
KeyOf(tok) ==
    CASE tok = "{A}" -> "A"
      [] tok = "{B}" -> "B"
      [] tok = "{name}" -> "name"
      [] OTHER -> "Z"

\* the keys whose values are lists of strings; the values of all other keys are strings
ListKeys == {"L", "context"}

EmptyMap == [k \in {} |-> <<>>]

\* '{' in v
has_brace(v) == \E i \in 1..Len(v) : v[i] \in Placeholders

\* needs_expansion(target)
needs_expansion(target) ==
    \E key \in DOMAIN target :
        IF key \in ListKeys
          THEN \E i \in 1..Len(target[key]) : has_brace(target[key][i])
          ELSE has_brace(target[key])

\* mutant: a list given at both levels is the concatenation of the two
ChainMap_Concat(own, base) ==
    [key \in DOMAIN own \cup DOMAIN base |->
        IF key \in DOMAIN own /\ key \in DOMAIN base /\ key \in ListKeys
          THEN base[key] \o own[key]
          ELSE IF key \in DOMAIN own THEN own[key] ELSE base[key]]

\* the mapping a ChainMap(own, base) shows: own wins, base fills in
ChainMap(own, base) ==
    [key \in DOMAIN own \cup DOMAIN base |-> IF key \in DOMAIN own THEN own[key] ELSE base[key]]

\* d[key] = value on a dict
Assign(d, key, value) == [k \in DOMAIN d \cup {key} |-> IF k = key THEN value ELSE d[k]]

\* x.format(**target) raises KeyError
KeyErrorIn(x, target) ==
    \E i \in 1..Len(x) : x[i] \in Placeholders /\ KeyOf(x[i]) \notin DOMAIN target

RECURSIVE format(_, _)
\* x.format(**target): each placeholder is replaced by the text of the field it names,
\* which may itself hold placeholders
format(x, target) ==
    IF x = <<>> THEN <<>>
    ELSE IF Head(x) \in Placeholders
           THEN target[KeyOf(Head(x))] \o format(Tail(x), target)
           ELSE <<Head(x)>> \o format(Tail(x), target)

\* the keys of a target in the order target.items() visits them
ItemKeys(order, target) == SelectSeq(order, LAMBDA key : key \in DOMAIN target)

RECURSIVE expand_pass(_, _, _)
\* one run of the for loop of lines 1202-1211 over the keys left to visit; writes go
\* to own, the first mapping of the ChainMap
expand_pass(keys, own, base) ==
    IF keys = <<>> THEN [own |-> own, err |-> NONE]
    ELSE LET key == Head(keys)
             target == ChainMap(own, base)
             value == target[key]
         IN IF key \in ListKeys THEN
                IF \E i \in 1..Len(value) : KeyErrorIn(value[i], target)
                  THEN [own |-> own, err |-> "unknown_key"]
                  ELSE expand_pass(Tail(keys),
                                   Assign(own, key,
                                          [i \in 1..Len(value) |-> format(value[i], target)]),
                                   base)
            ELSE
                IF KeyErrorIn(value, target)
                  THEN [own |-> own, err |-> "unknown_key"]
                  ELSE expand_pass(Tail(keys), Assign(own, key, format(value, target)), base)

RECURSIVE expand_OffByOne(_, _, _, _)
\* mutant: the ceiling is one pass lower
expand_OffByOne(own, base, order, iterations) ==
    IF ~needs_expansion(ChainMap(own, base)) THEN
        [own |-> own, passes |-> iterations, err |-> NONE]
    ELSE IF iterations + 1 >= MAX_ITERS THEN
        [own |-> own, passes |-> iterations, err |-> "too_many"]
    ELSE LET r == expand_pass(ItemKeys(order, ChainMap(own, base)), own, base)
         IN IF r.err # NONE
              THEN [own |-> r.own, passes |-> iterations, err |-> r.err]
              ELSE expand_OffByOne(r.own, base, order, iterations + 1)

RECURSIVE expand(_, _, _, _)
\* the while loop of lines 1197-1211; passes counts the completed for loops
expand(own, base, order, iterations) ==
    IF ~needs_expansion(ChainMap(own, base)) THEN
        [own |-> own, passes |-> iterations, err |-> NONE]
    ELSE IF iterations + 1 > MAX_ITERS THEN
        [own |-> own, passes |-> iterations, err |-> "too_many"]
    ELSE LET r == expand_pass(ItemKeys(order, ChainMap(own, base)), own, base)
         IN IF r.err # NONE
              THEN [own |-> r.own, passes |-> iterations, err |-> r.err]
              ELSE expand(r.own, base, order, iterations + 1)

\* ------------------------------------------------------- the configuration tree
\* The tree has a fixed skeleton; a node is [cond, fields, targets]: the value of its
\* `if` key (NONE without one), its value-typed keys, and its `targets` list.
Root == "root"
NodeIds == {"root", "n1", "n2", "n3"}
\* the dict-valued keys of a node, in declaration order
Children == [root |-> <<"n1", "n2">>, n1 |-> <<"n3">>, n2 |-> <<>>, n3 |-> <<>>]
\* the key a node sits under; targets_from starts the root with the name ""
NameOf(id) == IF id = Root THEN "" ELSE id

Flags == {"f1", "f2"}

\* a leaf target spec: the shorthand string, or a mapping of overrides
Shorthand(n) == [shorthand |-> TRUE, fields |-> [name |-> <<n>>]]
Leaf(f) == [shorthand |-> FALSE, fields |-> f]

PlainBody == [fields |-> EmptyMap, targets |-> <<>>]
ListBody ==
    [fields |-> [L |-> << <<"a">> >>],
     targets |-> <<Shorthand("t"), Leaf([name |-> <<"s">>, L |-> << <<"{name}">>, <<"b">> >>])>>]
MutualBody ==
    [fields |-> [L |-> << <<"b">> >>, A |-> <<"{B}">>],
     targets |-> <<Leaf([name |-> <<"u">>, L |-> << <<"c">> >>, B |-> <<"y">>]),
                   Leaf([name |-> <<"v">>, B |-> <<"{A}">>])>>]
ChainBody ==
    [fields |-> [B |-> <<"x", "{name}">>],
     targets |-> <<Leaf([name |-> <<"w">>, A |-> <<"{B}">>]), Shorthand("t")>>]
UnknownBody ==
    [fields |-> EmptyMap, targets |-> <<Leaf([name |-> <<"z">>, A |-> <<"{Z}">>])>>]

NodeOf(c, body) == [cond |-> c, fields |-> body.fields, targets |-> body.targets]

RootOpts == {NodeOf(c, b) : c \in {NONE, "f1"}, b \in {PlainBody, ListBody, ChainBody}}
InnerOpts ==
    {NodeOf(c, b) : c \in Flags \cup {NONE},
                    b \in {PlainBody, ListBody, MutualBody, ChainBody, UnknownBody}}
SiblingOpts == {NodeOf(c, b) : c \in Flags \cup {NONE}, b \in {PlainBody, ListBody, MutualBody}}

Trees ==
    {[root |-> r, n1 |-> a, n2 |-> b, n3 |-> c] :
        r \in RootOpts, a \in InnerOpts, b \in SiblingOpts, c \in InnerOpts}

KeyOrders ==
    {<<"name", "A", "B", "L", "if", "context">>, <<"context", "if", "L", "B", "A", "name">>}

\* the value-typed keys of a node other than `targets`, the `if` key among them
NodeValues(node) ==
    IF node.cond = NONE THEN node.fields ELSE Assign(node.fields, "if", <<node.cond>>)

\* a list of names as a list of strings
AsList(names) == [i \in 1..Len(names) |-> <<names[i]>>]

RECURSIVE targets_from(_, _, _, _, _)
RECURSIVE children_from(_, _, _, _, _)

RECURSIVE children_from_SharedConfig(_, _, _, _, _)
\* mutant: the frames write their fields into one shared mapping, so a child sees what
\* the children before it have set
children_from_SharedConfig(t, en, kids, context, base_config) ==
    IF kids = <<>> THEN <<>>
    ELSE targets_from(t, en, Head(kids), context, base_config)
         \o children_from_SharedConfig(t, en, Tail(kids), context,
                                       ChainMap(NodeValues(t[Head(kids)]), base_config))

\* the loop of lines 1185-1187 over the children left to visit
children_from(t, en, kids, context, base_config) ==
    IF kids = <<>> THEN <<>>
    ELSE targets_from(t, en, Head(kids), context, base_config)
         \o children_from(t, en, Tail(kids), context, base_config)

\* mutant: a false `if` silences the node's own targets only
targets_from_GateOwnOnly(t, en, id, context, base_config) ==
    LET node == t[id]
        ctx == IF NameOf(id) # "" THEN Append(context, NameOf(id)) ELSE context
        config == ChainMap(NodeValues(node), base_config)
    IN children_from(t, en, Children[id], ctx, config)
       \o IF node.cond # NONE /\ node.cond \notin en THEN <<>>
          ELSE [j \in 1..Len(node.targets) |->
                   [node |-> id, index |-> j,
                    own |-> node.targets[j].fields,
                    base |-> Assign(config, "context", AsList(ctx))]]

\* mutant: a node's own targets come before those of its children
targets_from_OwnFirst(t, en, id, context, base_config) ==
    LET node == t[id] IN
    IF node.cond # NONE /\ node.cond \notin en THEN <<>>
    ELSE LET ctx == IF NameOf(id) # "" THEN Append(context, NameOf(id)) ELSE context
             config == ChainMap(NodeValues(node), base_config)
         IN [j \in 1..Len(node.targets) |->
                   [node |-> id, index |-> j,
                    own |-> node.targets[j].fields,
                    base |-> Assign(config, "context", AsList(ctx))]]
            \o children_from(t, en, Children[id], ctx, config)

\* _targets_from up to template expansion: the targets it will expand and yield, in
\* order, each as the two mappings of its ChainMap
targets_from(t, en, id, context, base_config) ==
    LET node == t[id] IN
    IF node.cond # NONE /\ node.cond \notin en THEN <<>>
    ELSE LET ctx == IF NameOf(id) # "" THEN Append(context, NameOf(id)) ELSE context
             config == ChainMap(NodeValues(node), base_config)
         IN children_from(t, en, Children[id], ctx, config)
            \o [j \in 1..Len(node.targets) |->
                   [node |-> id, index |-> j,
                    own |-> node.targets[j].fields,
                    base |-> Assign(config, "context", AsList(ctx))]]

\* the targets the generator has still to go through, the next one first
Pending ==
    LET all == targets_from(tree, enabled, Root, <<>>, EmptyMap)
    IN SubSeq(all, Len(out) + 1, Len(all))

NoFail == [node |-> NONE, index |-> 0, passes |-> 0, raw |-> EmptyMap]

InitExpand ==
    /\ InstallParked
    /\ BuildParked
    /\ CacheParked
    /\ tree0 \in Trees
    /\ tree = tree0
    /\ enabled \in {{}, {"f1"}}
    /\ korder \in KeyOrders
    /\ out = <<>>
    /\ xstate = "running"
    /\ xfail = NoFail

\* the expansion loop on the next target
Expanded == expand(Head(Pending).own, Head(Pending).base, korder, 0)

\* the tree after the loop has written into the leaf mapping; the shorthand string
\* was wrapped into a mapping of its own
TreeAfter(p, r) ==
    IF tree[p.node].targets[p.index].shorthand THEN tree
    ELSE [tree EXCEPT ![p.node].targets[p.index].fields = r.own]

\* the generator yields its next target
YieldTarget ==
    /\ xstate = "running"
    /\ Pending # <<>>
    /\ Expanded.err = NONE
    /\ LET p == Head(Pending)
           r == Expanded
       IN /\ out' = Append(out, [node |-> p.node, index |-> p.index, passes |-> r.passes,
                                  raw |-> ChainMap(p.own, p.base),
                                  target |-> ChainMap(r.own, p.base)])
          /\ tree' = TreeAfter(p, r)
    /\ UNCHANGED <<tree0, enabled, korder, xstate, xfail, installvars, buildvars>>

\* the expansion of the next target raises, which ends the generator
RaiseExpand ==
    /\ xstate = "running"
    /\ Pending # <<>>
    /\ Expanded.err # NONE
    /\ LET p == Head(Pending)
           r == Expanded
       IN /\ xstate' = r.err
          /\ xfail' = [node |-> p.node, index |-> p.index, passes |-> r.passes,
                       raw |-> ChainMap(p.own, p.base)]
          /\ tree' = TreeAfter(p, r)
    /\ UNCHANGED <<tree0, enabled, korder, out, installvars, buildvars>>

\* the generator is exhausted
StopIteration ==
    /\ xstate = "running"
    /\ Pending = <<>>
    /\ xstate' = "exhausted"
    /\ UNCHANGED <<tree0, tree, enabled, korder, out, xfail, installvars, buildvars>>

NextExpand ==
    \/ YieldTarget
    \/ RaiseExpand
    \/ StopIteration

SpecExpand == InitExpand /\ [][NextExpand]_vars

\* ========================================================================
\* LibraryBuilder.build: the build matrix
\* ========================================================================
build_supported_arch == <<"x86_64", "x86">>
build_supported_stdlib == <<"", "libc++">>

\* A compiler of the properties file is [compilerType, target, output]: its
\* compilerType (NONE when the key is missing), the architecture of a -target option
\* ("" without one), and the architecture names its --target-help or llc --version
\* output contains.  "x86" is a substring of "x86_64".
Outputs == {{}, {"x86"}, {"x86", "x86_64"}}
CompilerProps ==
    {[compilerType |-> t, target |-> "", output |-> o] : t \in {"", "clang"}, o \in Outputs}
    \cup {[compilerType |-> t, target |-> a, output |-> {}] :
             t \in {"", "clang"}, a \in {"x86_64", "x86"}}
    \cup {[compilerType |-> NONE, target |-> "", output |-> {}]}

\* the compilers of get_cpp_properties_compilers(), in the order the loop visits them
CompilerIds == <<"c1", "c2">>

BuildInputs ==
    [build_type : {"", "cmake", "make"},
     build_fixed_arch : {"", "x86_64"},
     build_fixed_stdlib : {"", "libc++"},
     liblink : BOOLEAN,
     buildfor : {"", "c1", "c2"},
     dry_run : BOOLEAN,
     compilers : [1..Len(CompilerIds) -> CompilerProps]]

\* getTargetFromOptions, then `arch in output`
does_compiler_support(c, arch) ==
    IF c.target # "" THEN c.target = arch ELSE arch \in c.output

does_compiler_support_x86(c) == does_compiler_support(c, "x86")

\* lines 793-804
Stdlibs(c, fixed_stdlib) ==
    IF fixed_stdlib # "" THEN <<fixed_stdlib>>
    ELSE IF c.compilerType = "clang" THEN build_supported_stdlib
    ELSE <<"">>

\* mutant: each supported architecture is kept or dropped by its own probe
Archs_PerArch(c, fixed_arch) ==
    IF fixed_arch # "" THEN <<fixed_arch>>
    ELSE SelectSeq(build_supported_arch, LAMBDA a : does_compiler_support(c, a))

\* lines 806-816, for a compiler that supports the fixed architecture if one is set
Archs(c, fixed_arch) ==
    IF ~does_compiler_support_x86(c) THEN <<"">>
    ELSE IF fixed_arch # "" THEN <<fixed_arch>>
    ELSE build_supported_arch

RECURSIVE Product(_, _, _)
\* the nested loops of lines 822-827: the architecture outside, the standard library
\* inside; OS, build type, standard version and flags have one value each
Product(id, archs, stdlibs) ==
    IF archs = <<>> THEN <<>>
    ELSE [k \in 1..Len(stdlibs) |-> [compiler |-> id, arch |-> Head(archs), stdlib |-> stdlibs[k]]]
         \o Product(id, Tail(archs), stdlibs)

\* mutant: the result of the packaging export is not looked at
builtok_BuildOnly(built, export, dry) == built

\* makebuildfor, lines 726-737, over the exit of build.sh and what the export did
builtok(built, export, dry) ==
    IF built /\ ~dry THEN export = "ok" ELSE built

InitBuild ==
    /\ InstallParked
    /\ ExpandParked
    /\ CacheParked
    /\ binput \in BuildInputs
    /\ bpc = "idle"
    /\ ci = 0
    /\ todo = <<>>
    /\ builds_failed = 0
    /\ builds_succeeded = 0
    /\ attempts = <<>>
    /\ last = NoAttempt
    /\ bret = NONE

\* build() and the head of makebuild, lines 747-772 and 836-844
BuildCall ==
    /\ bpc = "idle"
    /\ IF binput.build_type = "" \/ binput.liblink
         THEN \* RuntimeError('No build_type'); NameError for libid at lines 763, 765
              bpc' = "raised" /\ ci' = ci
         ELSE bpc' = "compiler" /\ ci' = 1
    /\ UNCHANGED <<binput, todo, builds_failed, builds_succeeded, attempts, last, bret,
                   installvars, expvars>>

\* one turn of the for loop of line 774 up to the nested loops
CompilerLoop ==
    /\ bpc = "compiler"
    /\ ci <= Len(CompilerIds)
    /\ LET c == binput.compilers[ci]
           id == CompilerIds[ci]
       IN IF binput.buildfor # "" /\ id # binput.buildfor THEN
              /\ ci' = ci + 1
              /\ UNCHANGED <<bpc, todo, bret>>
          ELSE IF c.compilerType = NONE THEN
              /\ bpc' = "raised"
              /\ UNCHANGED <<ci, todo, bret>>
          ELSE IF binput.build_fixed_arch # ""
                  /\ ~does_compiler_support(c, binput.build_fixed_arch) THEN
              /\ bpc' = "returned"
              /\ bret' = "false"
              /\ UNCHANGED <<ci, todo>>
          ELSE
              LET combos == Product(id, Archs(c, binput.build_fixed_arch),
                                    Stdlibs(c, binput.build_fixed_stdlib))
              IN /\ todo' = combos
                 /\ IF combos = <<>>
                      THEN ci' = ci + 1 /\ UNCHANGED bpc
                      ELSE bpc' = "combos" /\ UNCHANGED ci
                 /\ UNCHANGED bret
    /\ UNCHANGED <<binput, builds_failed, builds_succeeded, attempts, last,
                   installvars, expvars>>

\* one makebuildfor call of line 828 and the count of its result
MakeBuildFor ==
    /\ bpc = "combos"
    /\ \E built \in BOOLEAN, export \in {"not_run", "ok", "failed", "no_binaries"} :
          /\ (export = "not_run") = (~built \/ binput.dry_run)
          /\ last' = [built |-> built, export |-> export,
                      failed_before |-> builds_failed,
                      succeeded_before |-> builds_succeeded]
          /\ IF builtok(built, export, binput.dry_run)
               THEN builds_succeeded' = builds_succeeded + 1 /\ UNCHANGED builds_failed
               ELSE builds_failed' = builds_failed + 1 /\ UNCHANGED builds_succeeded
    /\ attempts' = Append(attempts, Head(todo))
    /\ todo' = Tail(todo)
    /\ IF Tail(todo) = <<>>
         THEN bpc' = "compiler" /\ ci' = ci + 1
         ELSE UNCHANGED <<bpc, ci>>
    /\ UNCHANGED <<binput, bret, installvars, expvars>>

\* line 833
MakeBuildReturn ==
    /\ bpc = "compiler"
    /\ ci > Len(CompilerIds)
    /\ bpc' = "returned"
    /\ bret' = IF builds_failed = 0 THEN "true" ELSE "false"
    /\ UNCHANGED <<binput, ci, todo, builds_failed, builds_succeeded, attempts, last,
                   installvars, expvars>>

NextBuild ==
    \/ BuildCall
    \/ CompilerLoop
    \/ MakeBuildFor
    \/ MakeBuildReturn

SpecBuild == InitBuild /\ [][NextBuild]_vars

\* ========================================================================
\* s3_available_compilers, get_cpp_properties_compilers: the memoized lookups
\* ========================================================================
\* calls followed over one process
MaxCalls == 3

\* a name of the S3 listing: base and version where VERSIONED_RE matches, base NONE
\* where it does not
Versioned(b, v) == [base |-> b, ver |-> v]
Unversioned == [base |-> NONE, ver |-> 0]

Listings ==
    {<<>>,
     <<Versioned("gcc", 1)>>,
     <<Versioned("gcc", 1), Unversioned, Versioned("gcc", 2)>>,
     <<Versioned("clang", 1), Versioned("gcc", 2)>>}

\* the compilers left in the properties mapping after a fetch that succeeded
PropertiesFiles == {{}, {"c1"}, {"c1", "c2"}}

CompilerNames == {"gcc", "clang"}

\* a global that has been assigned a mapping
Cache(m) == [none |-> FALSE, entries |-> m]

RECURSIVE Collect(_, _)
\* the loop body of lines 44-47 over the names list_compilers() yielded
Collect(m, names) ==
    IF names = <<>> THEN m
    ELSE LET c == Head(names)
             sofar == IF c.base \in DOMAIN m THEN m[c.base] ELSE <<>>
         IN Collect(IF c.base = NONE THEN m ELSE Assign(m, c.base, Append(sofar, c.ver)),
                    Tail(names))

\* max(current[compiler_name])
MaxOf(seq) == CHOOSE x \in {seq[i] : i \in 1..Len(seq)} : \A i \in 1..Len(seq) : seq[i] <= x

\* what NightlyInstallable.__init__ does with the mapping it was handed
NightlyOutcome(compiler_name, current) ==
    IF compiler_name \notin DOMAIN current
        THEN [ended |-> "unable_to_find", most_recent |-> 0]
        ELSE [ended |-> "constructed", most_recent |-> MaxOf(current[compiler_name])]

\* a call that has returned the mapping `value`
Returned(fn, fetch, value, init) ==
    [fn |-> fn, fetch |-> fetch, returned |-> TRUE, value |-> value, init |-> init]

\* a call out of which the failure of the fetch has propagated
Raised(fn) ==
    [fn |-> fn, fetch |-> "failed", returned |-> FALSE, value |-> <<>>,
     init |-> [ended |-> "fetch_raised", most_recent |-> 0]]

NoInit == [ended |-> NONE, most_recent |-> 0]

InitCache ==
    /\ InstallParked
    /\ ExpandParked
    /\ BuildParked
    /\ memoized_compilers = NoCache
    /\ cpp_properties_compilers = NoCache
    /\ listing \in Listings
    /\ properties \in PropertiesFiles
    /\ calls = <<>>

\* NightlyInstallable.__init__ and the s3_available_compilers() it calls: with the
\* global at None the empty defaultdict is assigned first and filled name by name;
\* list_compilers() may raise after any number of names
NightlyInit ==
    /\ Len(calls) < MaxCalls
    /\ \E compiler_name \in CompilerNames :
          IF memoized_compilers.none THEN
              \/ LET m == Collect(<<>>, listing)
                 IN /\ memoized_compilers' = Cache(m)
                    /\ calls' = Append(calls, Returned("s3_available_compilers", "ok", m,
                                                       NightlyOutcome(compiler_name, m)))
              \/ \E k \in 0..Len(listing) :
                    /\ memoized_compilers' = Cache(Collect(<<>>, SubSeq(listing, 1, k)))
                    /\ calls' = Append(calls, Raised("s3_available_compilers"))
          ELSE
              /\ calls' = Append(calls,
                                 Returned("s3_available_compilers", "none",
                                          memoized_compilers.entries,
                                          NightlyOutcome(compiler_name,
                                                         memoized_compilers.entries)))
              /\ UNCHANGED memoized_compilers
    /\ UNCHANGED <<cpp_properties_compilers, listing, properties, lifecyclevars,
                   expvars, buildvars>>

\* get_cpp_properties_compilers(): with the global at None the empty defaultdict is
\* assigned first; a response that is not ok raises, an ok one is parsed into it
GetCppPropertiesCompilers ==
    /\ Len(calls) < MaxCalls
    /\ IF cpp_properties_compilers.none THEN
           \/ LET m == [c \in properties |-> "props"]
              IN /\ cpp_properties_compilers' = Cache(m)
                 /\ calls' = Append(calls, Returned("get_cpp_properties_compilers", "ok",
                                                    m, NoInit))
           \/ /\ cpp_properties_compilers' = Cache(<<>>)
              /\ calls' = Append(calls, Raised("get_cpp_properties_compilers"))
       ELSE
           /\ calls' = Append(calls,
                              Returned("get_cpp_properties_compilers", "none",
                                       cpp_properties_compilers.entries, NoInit))
           /\ UNCHANGED cpp_properties_compilers
    /\ UNCHANGED <<memoized_compilers, listing, properties, lifecyclevars,
                   expvars, buildvars>>

NextCache ==
    \/ NightlyInit
    \/ GetCppPropertiesCompilers

SpecCache == InitCache /\ [][NextCache]_vars

\* ========================================================================
\* Properties
\* ========================================================================
\* an install() call is under way or has ended, the process run not yet over
Installing == pc \notin {"idle", "vstage", "compare", "verified", "vraised", "vkilled"}

\* install() has returned or raised
Left == pc \in {"returned", "raised"}

\* the artifacts the destination path may hold after a call: the original or the new one
OldOrNew == {pre.dest[PathName], new} \ {NONE}

Min(a, b) == IF a <= b THEN a ELSE b

\* C1: once install() has returned or raised - after a missing staged source, a failing
\* rename-aside or a failing rename-in as well as after success - a destination path
\* that existed before the call exists and holds the complete original artifact or the
\* complete newly staged one, for every variant.
C1_DestinationOldOrNew ==
    (Left /\ pre.dest[PathName] # NONE) => dest[PathName] \in OldOrNew

\* a rename-in failed on an existing destination and the original is back in place
C1_Witness ==
    /\ pc = "raised"
    /\ err = "in"
    /\ pre.dest[PathName] # NONE
    /\ new # pre.dest[PathName]
    /\ dest[PathName] = pre.dest[PathName]

\* C2 as stated: a kill at any step of the move onto an existing destination leaves
\* the destination path holding the complete old or the complete new artifact.
C2_KilledOldOrNew ==
    (pc = "killed" /\ pre.dest[PathName] # NONE) => dest[PathName] \in OldOrNew

\* C2 amended: a kill before the rename-aside leaves the old artifact at the destination
\* path, a kill after the rename-in leaves the new one; a kill between the rename-aside
\* and the rename-in (or the rename-back) leaves the destination path absent, with the
\* complete old artifact at staging/temp_orig.  The path never holds anything else.
C2_KilledOldNewOrAside ==
    (pc = "killed" /\ pre.dest[PathName] # NONE) =>
        /\ mvstate = "" => dest[PathName] = pre.dest[PathName]
        /\ mvstate = "old_needs_remove" => (new # NONE /\ dest[PathName] = new)
        /\ mvstate = "old_renamed" =>
              \/ dest[PathName] = pre.dest[PathName]
              \/ dest[PathName] = NONE /\ staging["temp_orig"] = pre.dest[PathName]

\* killed between the rename-aside and the rename-in: the destination path is absent
C2_Witness ==
    /\ pc = "killed"
    /\ pre.dest[PathName] # NONE
    /\ dest[PathName] = NONE
    /\ staging["temp_orig"] = pre.dest[PathName]
    /\ staging["untar_dir"] = new

\* C3: when the rename of the staged source into an existing destination fails, the old
\* destination is renamed back (the destination holds its pre-operation artifact and
\* nothing is left at temp_orig), the staged source is still in staging, and the call
\* raises instead of returning.
C3_RollbackOnFailedRenameIn ==
    (err = "in" /\ pc \in {"link", "returned", "raised"} /\ pre.dest[PathName] # NONE) =>
        /\ pc = "raised"
        /\ ret = NONE
        /\ dest[PathName] = pre.dest[PathName]
        /\ staging["temp_orig"] = NONE
        /\ new # NONE
        /\ staging["untar_dir"] = new

\* the rollback has run: old artifact at the destination, a different one still staged
C3_Witness ==
    /\ pc = "raised"
    /\ err = "in"
    /\ mvstate = "old_renamed"
    /\ dest[PathName] = "marker_only"
    /\ staging["untar_dir"] = "exe_only"

\* C4: in dry-run mode move_from_staging returns without changing the destination, the
\* symlink or the staging directory (no temp_orig appears), whether or not the source is
\* staged and whether or not the destination exists.
C4_DryRunMoveChangesNothing ==
    [][(pc = "move" /\ dry_run) =>
          /\ pc' \in {"link", "killed"}
          /\ dest' = dest
          /\ staging' = staging
          /\ link' = link
          /\ subdir_made' = subdir_made
          /\ err' = err]_vars

\* a dry-run move has returned with the destination existing and the source staged
C4_Witness ==
    /\ pc = "link"
    /\ dry_run
    /\ dest[PathName] # NONE
    /\ staging["untar_dir"] # NONE
    /\ staging["untar_dir"] # dest[PathName]

\* C5 as stated: after a successful non-dry-run nightly install() of a version that was
\* not installed, exactly min(N, K) of the N old versions remain, the K newest.
C5_RetainsNewestK ==
    (variant = "nightly" /\ pc = "returned" /\ ret = "true" /\ ~dry_run
        /\ pre.dest[most_recent] = NONE) =>
        LET old == Glob(pre.dest)
            remaining == Glob(dest) \ {most_recent}
            K == cfg.num_to_keep
        IN  /\ Cardinality(remaining) = Min(Cardinality(old), K)
            /\ remaining \subseteq old
            /\ \A r \in remaining : Cardinality({o \in old : o > r}) < K

\* C6: the nightly symlink is repointed only after the new version is in place.  After a
\* successful non-dry-run install() it names the new version, which exists; whenever a
\* step has raised, and at every earlier point of the call, it names what it named before.
C6_LinkRepointedAfterMove ==
    (variant = "nightly" /\ Installing) =>
        /\ (pc = "returned" /\ ret = "true" /\ ~dry_run) =>
              (link = most_recent /\ dest[most_recent] = new /\ new # NONE)
        /\ err # NONE => link = pre.link
        /\ link # pre.link =>
              (link = most_recent /\ dest[most_recent] = new /\ new # NONE /\ ~dry_run)

\* a nightly install() has moved the symlink from an older version to the new one
C6_Witness ==
    /\ variant = "nightly"
    /\ pc = "returned"
    /\ ret = "true"
    /\ pre.link # NoLink
    /\ pre.link # most_recent
    /\ link = most_recent
    /\ dest[most_recent] # NONE

\* C7 as stated: when a symlink check is configured its result alone is the answer of
\* is_installed().
C7_LinkAloneDecides ==
    (q.op = "is_installed" /\ LinkConfigured) => q.res = CheckLink

\* C7 amended: a configured symlink check that fails makes is_installed() false whatever
\* the other checks report; when it passes, or none is configured, the answer is that of
\* the marker-file check if one is configured, and else that of the probe command.
C7_LinkVetoThenFileElseProbe ==
    q.op = "is_installed" =>
        /\ (LinkConfigured /\ ~CheckLink) => q.res = FALSE
        /\ ((~LinkConfigured \/ CheckLink) /\ cfg.check_file) =>
              q.res = HasMarker(dest[PathName])
        /\ ((~LinkConfigured \/ CheckLink) /\ ~cfg.check_file) =>
              q.res = ProbeOk(dest[PathName])

\* the symlink matches and is_installed() is false all the same
C7_Witness ==
    /\ q.op = "is_installed"
    /\ LinkConfigured
    /\ CheckLink
    /\ q.res = FALSE

\* C8: should_install() is install_always or not is_installed() for the tarballs,
\* s3tarballs, script and github variants, and true in every state for nightly.
C8_ShouldInstall ==
    q.op = "should_install" =>
        IF variant = "nightly" THEN q.res = TRUE
        ELSE q.res = (q.always \/ ~IsInstalled)

\* nightly, the newest version installed with the symlink on it: still true
C8_Witness ==
    /\ q.op = "should_install"
    /\ variant = "nightly"
    /\ ~q.always
    /\ IsInstalled
    /\ link = most_recent
    /\ q.res

\* C9: when a declared dependee is not installed, install() returns False having changed
\* nothing - staging not cleared, nothing fetched, destination tree, symlink and dependees
\* as before - and is_installed() was asked of every declared dependee.
C9_MissingDependeeAborts ==
    (Installing /\ \E i \in 1..Len(cfg.depends) : ~depInstalled[cfg.depends[i]]) =>
        /\ pc = "returned"
        /\ ret = "false"
        /\ ~cleaned
        /\ ~fetched
        /\ dest = pre.dest
        /\ link = pre.link
        /\ subdir_made = pre.subdir_made
        /\ staging = pre.staging
        /\ depInstalled = pre.depInstalled
        /\ checked = {cfg.depends[i] : i \in 1..Len(cfg.depends)}

\* the second of two dependees is the missing one; staging still holds an earlier artifact
C9_Witness ==
    /\ pc = "returned"
    /\ ret = "false"
    /\ Len(cfg.depends) = 2
    /\ depInstalled[cfg.depends[1]]
    /\ ~depInstalled[cfg.depends[2]]
    /\ checked = {"depA", "depB"}
    /\ staging["untar_dir"] # NONE
    /\ dest[PathName] # NONE

\* C10 as stated: a second install() of a tarballs Installable that is_installed()
\* (install_always false) neither clears staging nor fetches nor moves anything.
C10_SecondInstallShortCircuits ==
    (variant = "tarballs" /\ Installing /\ pre.installed) =>
        (~cleaned /\ ~fetched /\ dest = pre.dest)

\* C10 amended: install() does not consult should_install().  A second install() of a
\* tarballs Installable that is_installed() (dependees installed) clears staging and,
\* unless the fetch raises, fetches the archive again; when it returns True outside
\* dry-run mode the destination holds the newly staged artifact.  Only a caller that
\* asks should_install() first avoids this.
C10_SecondInstallStagesAgain ==
    (variant = "tarballs" /\ pre.installed /\ ret # "false"
        /\ pc \in {"move", "rename_in", "finally", "link", "returned", "raised"}) =>
        /\ cleaned
        /\ err \notin {"clean", "fetch"} => fetched
        /\ (pc = "returned" /\ ~dry_run) => (new # NONE /\ dest[FixedPath] = new)

\* a second install() has replaced an installed artifact by a newly fetched one
C10_Witness ==
    /\ variant = "tarballs"
    /\ pre.installed
    /\ pc = "returned"
    /\ ret = "true"
    /\ fetched
    /\ dest[FixedPath] # pre.dest[FixedPath]

\* ------------------------------------------------------------------------
\* targets_from
\* ------------------------------------------------------------------------
Parent == [root |-> NONE, n1 |-> "root", n2 |-> "root", n3 |-> "n1"]

RECURSIVE PathTo(_)
\* the nodes from below the root down to id
PathTo(id) == IF id = Root THEN <<>> ELSE Append(PathTo(Parent[id]), id)

\* id and the nodes above it
SelfAndAbove(id) == {Root} \cup {PathTo(id)[k] : k \in 1..Len(PathTo(id))}

\* the node carries an `if` whose flag is not enabled
Disabled(id) == tree0[id].cond # NONE /\ tree0[id].cond \notin enabled

\* the generator has stopped, by exhaustion or by raising
Stopped == xstate \in {"exhausted", "too_many", "unknown_key"}

\* C11: a node whose `if` flag is not enabled contributes no target, neither from its
\* own targets list nor from any node below it, whatever `if` the nodes below carry.
C11_DisabledNodeContributesNothing ==
    \A i \in 1..Len(out) : \A id \in SelfAndAbove(out[i].node) : ~Disabled(id)

\* the generator ran dry with targets yielded, while n3 holds targets under an enabled
\* `if` of its own below the disabled n1, which holds targets too
C11_Witness ==
    /\ xstate = "exhausted"
    /\ out # <<>>
    /\ Disabled("n1")
    /\ tree0["n1"].targets # <<>>
    /\ tree0["n3"].cond \in enabled
    /\ tree0["n3"].targets # <<>>

RECURSIVE NearestAbove(_, _)
\* the definitions of key at id and above it, the nearest first
NearestAbove(id, key) ==
    (IF key \in DOMAIN tree0[id].fields THEN <<tree0[id].fields[key]>> ELSE <<>>)
    \o (IF id = Root THEN <<>> ELSE NearestAbove(Parent[id], key))

\* the definitions of key on the path from leaf spec index of node id up to the root
DefinitionsFor(id, index, key) ==
    (IF key \in DOMAIN tree0[id].targets[index].fields
       THEN <<tree0[id].targets[index].fields[key]>> ELSE <<>>)
    \o NearestAbove(id, key)

\* C12: in every yielded target the list-of-strings field L, before template
\* expansion, is the list of the nearest definition on the path leaf spec, owning
\* node, ancestors; it is absent when nothing on the path defines it, and it is never
\* built from two definitions.
C12_NearestListWins ==
    \A i \in 1..Len(out) :
        LET defs == DefinitionsFor(out[i].node, out[i].index, "L")
        IN IF defs = <<>> THEN "L" \notin DOMAIN out[i].raw
           ELSE "L" \in DOMAIN out[i].raw /\ out[i].raw["L"] = Head(defs)

\* a yielded target whose leaf spec, owning node and an ancestor give three different
\* lists
C12_Witness ==
    \E i \in 1..Len(out) :
        LET defs == DefinitionsFor(out[i].node, out[i].index, "L")
        IN /\ Len(defs) >= 3
           /\ defs[1] # defs[2]
           /\ defs[2] # defs[3]
           /\ defs[1] # defs[3]
           /\ "L" \in DOMAIN tree0[out[i].node].targets[out[i].index].fields

IsPrefix(s, t) == Len(s) <= Len(t) /\ SubSeq(t, 1, Len(s)) = s

\* a lies above b
Above(a, b) == a # b /\ IsPrefix(PathTo(a), PathTo(b))

PosIn(seq, x) == CHOOSE k \in 1..Len(seq) : seq[k] = x

\* a and b lie in different subtrees, that of a declared first
DeclaredBefore(a, b) ==
    LET pa == PathTo(a)
        pb == PathTo(b)
    IN \E k \in 1..Min(Len(pa), Len(pb)) :
          /\ SubSeq(pa, 1, k - 1) = SubSeq(pb, 1, k - 1)
          /\ pa[k] # pb[k]
          /\ PosIn(Children[Parent[pa[k]]], pa[k]) < PosIn(Children[Parent[pa[k]]], pb[k])

\* C13: targets come out depth-first with a node's own targets last: those of a node
\* lying below another come before that other's own targets, those of an earlier
\* declared child before those of a later one, a node's own targets in list order;
\* none is left out; and the context of a target is the sequence of node names from
\* the root down to the node owning its targets list.
C13_DepthFirstOwnTargetsLast ==
    /\ \A i, j \in 1..Len(out) :
          i < j =>
             \/ out[i].node = out[j].node /\ out[i].index < out[j].index
             \/ Above(out[j].node, out[i].node)
             \/ DeclaredBefore(out[i].node, out[j].node)
    /\ \A i \in 1..Len(out) : out[i].raw["context"] = AsList(PathTo(out[i].node))
    /\ xstate = "exhausted" =>
          \A id \in NodeIds :
             (\A a \in SelfAndAbove(id) : ~Disabled(a)) =>
                \A index \in 1..Len(tree0[id].targets) :
                   \E i \in 1..Len(out) : out[i].node = id /\ out[i].index = index

\* every node of the tree, root included, has yielded targets
C13_Witness ==
    /\ xstate = "exhausted"
    /\ \A id \in NodeIds : \E i \in 1..Len(out) : out[i].node = id
    /\ \E i \in 1..Len(out) : out[i].index = 2

RECURSIVE AfterPasses(_, _)
\* a target after k passes of the for loop of lines 1202-1211
AfterPasses(target, k) ==
    IF k = 0 THEN target
    ELSE AfterPasses(expand_pass(ItemKeys(korder, target), target, EmptyMap).own, k - 1)

\* the fields A and B of the target name each other and nothing else
MutualAB(target) ==
    /\ {"A", "B"} \subseteq DOMAIN target
    /\ target["A"] = <<"{B}">>
    /\ target["B"] = <<"{A}">>

PassesFilter(i) == binput.buildfor = "" \/ CompilerIds[i] = binput.buildfor

\* how many times makebuildfor was called with the combination
TimesAttempted(combo) == Cardinality({k \in 1..Len(attempts) : attempts[k] = combo})

\* the architectures makebuildfor was called with for the compiler at index i
AttemptedArchs(i) ==
    {attempts[k].arch : k \in {n \in 1..Len(attempts) : attempts[n].compiler = CompilerIds[i]}}

\* C15: build() returns success exactly when no attempted combination failed; it
\* never returns failure when the failed count is zero.
C15_SuccessIffNoFailure ==
    bpc = "returned" => ((bret = "true") <=> (builds_failed = 0))

\* C16 as stated: a combination whose build.sh exits zero is counted as succeeded,
\* whatever the packaging export does.
C16_BuiltCountsAsSucceeded ==
    (last.export # NONE /\ last.built) =>
        /\ builds_succeeded = last.succeeded_before + 1
        /\ builds_failed = last.failed_before

\* C16: outside dry-run mode a combination whose build.sh exits zero is counted as
\* succeeded only if the packaging export ran and succeeded; a failing export, or an
\* export skipped because no binaries were found, counts the combination as failed and
\* makes build() return failure.  In dry-run mode no export runs and the exit of
\* build.sh alone decides.
C16_ExportDecidesOutsideDryRun ==
    /\ last.export # NONE =>
          /\ binput.dry_run => last.export = "not_run"
          /\ IF last.built /\ (binput.dry_run \/ last.export = "ok")
               THEN /\ builds_succeeded = last.succeeded_before + 1
                    /\ builds_failed = last.failed_before
               ELSE /\ builds_failed = last.failed_before + 1
                    /\ builds_succeeded = last.succeeded_before
    /\ (bpc = "returned" /\ last.export \in {"failed", "no_binaries"}) => bret = "false"

\* build() has returned failure after a single combination whose build.sh exited zero
\* and whose export found no binaries
C16_Witness ==
    /\ bpc = "returned"
    /\ bret = "false"
    /\ Len(attempts) = 1
    /\ last.built
    /\ last.export = "no_binaries"
    /\ builds_failed = 1

\* the combinations of the compiler at index i that the pruning leaves
Surviving(i) ==
    LET c == binput.compilers[i]
    IN IF binput.build_fixed_arch # "" /\ ~does_compiler_support(c, binput.build_fixed_arch)
         THEN {}
         ELSE LET all == Product(CompilerIds[i], Archs(c, binput.build_fixed_arch),
                                 Stdlibs(c, binput.build_fixed_stdlib))
              IN {all[k] : k \in 1..Len(all)}

\* C17: when build() returns, makebuildfor has been called exactly once for every
\* surviving combination of every compiler that passes the filter, whatever came of
\* earlier combinations and earlier compilers.
C17_EveryCombinationOnce ==
    bpc = "returned" =>
        \A i \in 1..Len(CompilerIds) :
            PassesFilter(i) => \A combo \in Surviving(i) : TimesAttempted(combo) = 1

\* C18 as stated: with no fixed architecture, each supported architecture is attempted
\* for a compiler exactly when the probe for that compiler and architecture is positive.
C18_PerArchitecturePruning ==
    (bpc = "returned" /\ binput.build_fixed_arch = "") =>
        \A i \in 1..Len(CompilerIds) :
            PassesFilter(i) =>
                \A k \in 1..Len(build_supported_arch) :
                    (build_supported_arch[k] \in AttemptedArchs(i))
                    <=> does_compiler_support(binput.compilers[i], build_supported_arch[k])

\* C18: with no fixed architecture, pruning is per compiler and rests on the x86 probe
\* alone: a compiler whose x86 probe is positive is attempted for both x86_64 and x86
\* (x86_64 is not probed), a compiler whose x86 probe is negative is attempted for
\* neither but once for its native architecture "", and the probe of one compiler
\* leaves the architectures of the other compilers as they are.
C18_X86ProbeDecidesAll ==
    (bpc = "returned" /\ binput.build_fixed_arch = "") =>
        \A i \in 1..Len(CompilerIds) :
            AttemptedArchs(i) =
                IF ~PassesFilter(i) THEN {}
                ELSE IF does_compiler_support(binput.compilers[i], "x86")
                       THEN {"x86_64", "x86"}
                       ELSE {""}

\* build() has returned after the first compiler, which supports x86_64 and not x86,
\* was built for "" only, and the second, which supports x86, for both architectures
C18_Witness ==
    /\ bpc = "returned"
    /\ binput.build_fixed_arch = ""
    /\ binput.buildfor = ""
    /\ does_compiler_support(binput.compilers[1], "x86_64")
    /\ ~does_compiler_support(binput.compilers[1], "x86")
    /\ AttemptedArchs(1) = {""}
    /\ AttemptedArchs(2) = {"x86_64", "x86"}

\* ------------------------------------------------------------------------
\* the staging directory
\* ------------------------------------------------------------------------
\* C19: when a call reaches its move (or the retention or make_subdir just before it)
\* or its comparison, the staging directory holds what the stage() of this call
\* fetched and nothing else: one directory, the one unpacked by this call, and no
\* temp_orig - whatever earlier calls left in the staging directory.
C19_StagingHoldsOnlyThisStage ==
    pc \in {"pre_move", "move", "compare"} =>
        /\ cleaned
        /\ fetched
        /\ staging["temp_orig"] = NONE
        /\ staging["untar_dir"] = new
        /\ (staging["other"] = NONE) <=> (new # NONE)

\* a call is at its move with a different artifact staged than the one an earlier,
\* killed call left there next to the destination it had renamed aside
C19_Witness ==
    /\ pc = "move"
    /\ pre.staging["temp_orig"] # NONE
    /\ pre.staging["untar_dir"] # NONE
    /\ staging["untar_dir"] # pre.staging["untar_dir"]

\* a verify() is at its comparison after an earlier call left a directory of another
\* name in the staging directory
C19_WitnessCompare ==
    /\ pc = "compare"
    /\ pre.staging["other"] # NONE
    /\ staging["other"] = NONE

\* C20 as stated: the renamed-aside destination is not inside the staging directory.
C20_AsideOutsideStaging ==
    (pc = "rename_in" /\ mvstate = "old_renamed") => staging["temp_orig"] = NONE

\* C20: when the destination exists, move_from_staging renames it aside to the fixed
\* name temp_orig inside the staging directory: after the rename the old artifact is
\* at staging/temp_orig, the destination path is absent, and no other path of the
\* destination tree has appeared or changed.
C20_AsideInsideStaging ==
    (pc = "rename_in" /\ mvstate = "old_renamed") =>
        /\ pre.dest[PathName] # NONE
        /\ staging["temp_orig"] = pre.dest[PathName]
        /\ dest[PathName] = NONE
        /\ \A p \in Paths : dest[p] \in {NONE, pre.dest[p]}

\* an existing destination has been renamed aside and the rename-in is next
C20_Witness ==
    /\ pc = "rename_in"
    /\ mvstate = "old_renamed"
    /\ staging["temp_orig"] # NONE
    /\ staging["untar_dir"] # NONE

\* ------------------------------------------------------------------------
\* targets_from: frames
\* ------------------------------------------------------------------------
RECURSIVE NearestCond(_)
\* the `if` values at id and above it, the nearest first
NearestCond(id) ==
    (IF tree0[id].cond # NONE THEN << <<tree0[id].cond>> >> ELSE <<>>)
    \o (IF id = Root THEN <<>> ELSE NearestCond(Parent[id]))

\* the definitions of key that lie on the path of the target: its leaf spec, the node
\* owning it, and the nodes above
OnOwnPath(id, index, key) ==
    IF key = "if" THEN NearestCond(id) ELSE DefinitionsFor(id, index, key)

\* C21: every field of a yielded target comes from the target's own path.  Before
\* expansion a field is present exactly when the leaf spec, the owning node or a node
\* above defines it (context apart), and its value is the nearest of those
\* definitions; the expanded target is the outcome of the passes on those values
\* alone.  So nothing set or expanded for a sibling node, for another leaf spec of
\* the same list or inside a child node shows in it.
C21_FieldsFromOwnPathOnly ==
    \A i \in 1..Len(out) :
        /\ \A key \in {"name", "A", "B", "L", "if"} :
              LET defs == OnOwnPath(out[i].node, out[i].index, key)
              IN IF defs = <<>> THEN key \notin DOMAIN out[i].raw
                 ELSE key \in DOMAIN out[i].raw /\ out[i].raw[key] = Head(defs)
        /\ DOMAIN out[i].raw \subseteq {"name", "A", "B", "L", "if", "context"}
        /\ out[i].target = AfterPasses(out[i].raw, out[i].passes)

\* the generator ran dry after the siblings n1 and n2 each yielded a target with a
\* field the other's target lacks, two leaf specs of one list came out with different
\* expanded lists, and the root yielded a target of its own
C21_Witness ==
    /\ xstate = "exhausted"
    /\ \E i, j \in 1..Len(out) :
          /\ out[i].node = "n1"
          /\ out[j].node = "n2"
          /\ "A" \in DOMAIN out[i].target /\ "A" \notin DOMAIN out[j].target
          /\ "L" \in DOMAIN out[j].target /\ "L" \notin DOMAIN out[i].target
    /\ \E k, l \in 1..Len(out) :
          /\ out[k].node = out[l].node
          /\ out[k].index # out[l].index
          /\ "L" \in DOMAIN out[k].target
          /\ out[k].target["L"] # out[l].target["L"]
    /\ \E r \in 1..Len(out) : out[r].node = Root

\* ------------------------------------------------------------------------
\* dry-run and failure frames of install()
\* ------------------------------------------------------------------------
\* C22: in dry-run mode install() leaves the destination tree as it was before the call:
\* no version removed, nothing moved in, no symlink changed and no directory created,
\* also when a non-empty subdir is configured.
C22_DryRunLeavesDestination ==
    (Installing /\ dry_run) =>
        /\ dest = pre.dest
        /\ link = pre.link
        /\ subdir_made = pre.subdir_made

\* a nightly install() outside dry-run mode has raised at the move step
NightlyMoveFailed ==
    /\ variant = "nightly"
    /\ ~dry_run
    /\ pc = "raised"
    /\ err \in {"missing", "aside", "in"}

\* C23 as stated: when a nightly install() fails at the move step the whole destination
\* tree is as before the call - every version installed before still exists and the
\* symlink is unchanged.
C23_FailedMoveLeavesTree ==
    NightlyMoveFailed => (dest = pre.dest /\ link = pre.link)

\* C23 amended: retention runs before the move.  When a nightly install() fails at the
\* move step the symlink is as before the call and a version installed before the call
\* still exists, with its content, exactly when at most num_to_keep of the versions
\* installed before the call are newer than it; the older ones were removed ahead of the
\* move and stay removed.  Nothing else of the tree differs.
C23_FailedMoveKeepsRetained ==
    NightlyMoveFailed =>
        /\ link = pre.link
        /\ dest[FixedPath] = pre.dest[FixedPath]
        /\ \A v \in Versions :
              dest[v] = IF Cardinality({o \in Glob(pre.dest) : o > v}) > cfg.num_to_keep
                          THEN NONE
                          ELSE pre.dest[v]

\* the rename of a new nightly into place has raised after retention removed an older
\* version, which is still gone
C23_Witness ==
    /\ NightlyMoveFailed
    /\ err = "in"
    /\ pre.dest[most_recent] = NONE
    /\ \E v \in Versions : pre.dest[v] # NONE /\ dest[v] = NONE
    /\ \E v \in Versions : pre.dest[v] # NONE /\ dest[v] = pre.dest[v]

\* ------------------------------------------------------------------------
\* the fixed build architecture
\* ------------------------------------------------------------------------
\* C25: when a fixed build architecture is declared and a compiler's probe reports support
\* for it, every attempt made for that compiler uses exactly that architecture - never
\* another one and never the empty (native) one, whatever its x86 probe reports.
C25_FixedArchOnly ==
    \A i \in 1..Len(CompilerIds) :
        (/\ binput.build_fixed_arch # ""
         /\ does_compiler_support(binput.compilers[i], binput.build_fixed_arch)) =>
            AttemptedArchs(i) \subseteq {binput.build_fixed_arch}

\* ------------------------------------------------------------------------
\* the configuration tree after expansion
\* ------------------------------------------------------------------------
\* C26: target expansion does not modify its input - once targets_from has been fully
\* consumed every node and every leaf target spec of the tree holds the field values it
\* held before.
C26_InputUnchanged ==
    xstate = "exhausted" => tree = tree0

\* ------------------------------------------------------------------------
\* the memoized lookups
\* ------------------------------------------------------------------------
\* a fetch of the lookup fn has succeeded in one of the first k calls
FetchedBy(fn, k) == \E j \in 1..k : calls[j].fn = fn /\ calls[j].fetch = "ok"

\* C24: the memoized lookups are populated only by a successful fetch - every call that
\* returns a mapping was preceded by, or itself made, a successful fetch; after a first
\* call whose fetch failed a later call fetches again or fails again and never returns
\* a mapping as if the fetch had succeeded.
C24_PopulatedOnlyBySuccessfulFetch ==
    \A k \in 1..Len(calls) : calls[k].returned => FetchedBy(calls[k].fn, k)

====
